---- MODULE Spec2Model ----
(***************************************************************************)
(* A model of localize.py: the module-level language session               *)
(* (__source_lang, __target_lang, __translations), the translation files   *)
(* of the working directory, the caller's source text, and one action per  *)
(* public function of the module.                                          *)
(*                                                                         *)
(* Text is a sequence of characters, each character a one-token string.    *)
(* U+0130 (capital I with dot above) and U+0307 (combining dot above) are  *)
(* written "U+0130" and "U+0307": U+0130 is the one character whose        *)
(* str.lower() is two characters long.                                     *)
(* A Python value is a record [t |-> type, v |-> payload].                 *)
(* A dict is the sequence of its <<key, value>> pairs in insertion order.  *)
(***************************************************************************)
EXTENDS Integers, Sequences, FiniteSets, TLC

VARIABLES
    __source_lang,    \* the module global __source_lang
    __target_lang,    \* the module global __target_lang
    __translations,   \* the module global __translations
    files,            \* the working directory: file name -> contents
    script,           \* the text of the calling script, a sequence of lines
    handle,           \* TRUE once translator() has returned __gettext
    pre,              \* the globals as they were when the last call began
    call              \* the last call: function, arguments, outcome

vars == <<__source_lang, __target_lang, __translations, files, script,
          handle, pre, call>>

----------------------------------------------------------------------------
(* Python values *)

Str(s) == [t |-> "str", v |-> s]
None == [t |-> "none", v |-> <<>>]
\* some value that is neither a str nor None (a number)
Number == [t |-> "int", v |-> <<>>]

----------------------------------------------------------------------------
(* Text *)

\* str.lower() of one character
LowerChar(c) ==
    CASE c = "E" -> <<"e">>
      [] c = "N" -> <<"n">>
      [] c = "P" -> <<"p">>
      [] c = "L" -> <<"l">>
      [] c = "D" -> <<"d">>
      [] c = "U+0130" -> <<"i", "U+0307">>
      [] OTHER -> <<c>>

RECURSIVE Lower(_)
\* str.lower()
Lower(s) == IF s = <<>> THEN <<>> ELSE LowerChar(Head(s)) \o Lower(Tail(s))

\* s[:n]
Prefix(s, n) == SubSeq(s, 1, IF Len(s) < n THEN Len(s) ELSE n)

\* s[:-n]
DropLast(s, n) == SubSeq(s, 1, IF Len(s) < n THEN 0 ELSE Len(s) - n)

RECURSIVE Strip(_)
\* str.strip(): leading and trailing white space removed
Strip(s) ==
    IF s = <<>> THEN s
    ELSE IF Head(s) = " " THEN Strip(Tail(s))
    ELSE IF s[Len(s)] = " " THEN Strip(SubSeq(s, 1, Len(s) - 1))
    ELSE s

\* x in seq
InSeq(x, seq) == \E i \in 1..Len(seq) : seq[i] = x

----------------------------------------------------------------------------
(* dict *)

\* list(d.keys())
Keys(d) == [i \in 1..Len(d) |-> d[i][1]]

\* key in d.keys()
HasKey(d, k) == \E i \in 1..Len(d) : d[i][1] = k

\* d[k], for a key of d
Get(d, k) == d[CHOOSE i \in 1..Len(d) : d[i][1] = k][2]

\* d.update({k: val}): a present key keeps its place, a new one goes last
Update(d, k, val) ==
    IF HasKey(d, k)
    THEN [i \in 1..Len(d) |-> IF d[i][1] = k THEN <<k, val>> ELSE d[i]]
    ELSE Append(d, <<k, val>>)

----------------------------------------------------------------------------
(* Names *)

K_source_lang == <<"_","_","s","o","u","r","c","e","_","l","a","n","g">>
K_target_lang == <<"_","_","t","a","r","g","e","t","_","l","a","n","g">>
K_target_lang_readable ==
    K_target_lang \o <<"_","r","e","a","d","a","b","l","e">>

\* ".translation"
Ext == <<".","t","r","a","n","s","l","a","t","i","o","n">>

----------------------------------------------------------------------------
(* Outcomes of a call *)

Message(tag, parts) == [tag |-> tag, parts |-> parts]
NoMessage == Message("", <<>>)

\* a normal return of value r, the store left as tr
Return(r, tr) == [exc |-> "", msg |-> NoMessage, ret |-> r, store |-> tr]

\* an exception of class e, the store left as tr
Raise(e, m, tr) ==
    [exc |-> e, msg |-> m, ret |-> [t |-> "raised", v |-> <<>>], store |-> tr]

----------------------------------------------------------------------------
(* Files *)

Absent == [kind |-> "absent", data |-> <<>>]
\* a file whose text is not JSON
Malformed == [kind |-> "malformed", data |-> <<>>]
\* a file holding the JSON object d
Object(d) == [kind |-> "object", data |-> d]

\* open(name) finds a file
Exists(fs, name) == name \in DOMAIN fs /\ fs[name].kind # "absent"

\* __load_translations(target_lang), called with the store holding tr
__load_translations(target_lang, fs, tr) ==
    LET name == target_lang \o Ext IN
    IF ~Exists(fs, name)
    THEN Raise("FileNotFoundError",
               Message("No translation file found for target language",
                       <<target_lang>>), tr)
    ELSE IF fs[name].kind = "malformed"
    THEN Raise("JSONDecodeError",
               Message("Couldn't parse JSON in file", <<name>>), tr)
    ELSE Return(None, fs[name].data)

----------------------------------------------------------------------------
(* translator and the lookup *)

\* type(x) is str and len(x) == 2
IsCode(x) == x.t = "str" /\ Len(x.v) = 2

\* the globals after a call, and its outcome
Effect(sl, tl, out) == [sl |-> sl, tl |-> tl, out |-> out]

\* translator(source_lang, target_lang), called with the globals sl, tl, tr
translator(source_lang, target_lang, sl, tl, tr, fs) ==
    IF ~IsCode(source_lang)
    THEN Effect(sl, tl,
                Raise("ValueError",
                      Message("source_lang must be a two character string",
                              <<>>), tr))
    ELSE
    LET sl1 == Str(Lower(source_lang.v)) IN
    IF target_lang # None /\ ~IsCode(target_lang)
    THEN Effect(sl1, tl,
                Raise("ValueError",
                      Message("target_lang must be either a two character string, or the value None",
                              <<>>), tr))
    ELSE
    LET tl1 == IF target_lang = None THEN None
               ELSE Str(Lower(target_lang.v)) IN
    IF tl1 # None /\ tl1 # sl1
    THEN LET l == __load_translations(tl1.v, fs, tr) IN
         IF l.exc # "" THEN Effect(sl1, tl1, l)
         ELSE Effect(sl1, tl1,
                     Return([t |-> "handle", v |-> <<>>], l.store))
    ELSE Effect(sl1, tl1, Return([t |-> "handle", v |-> <<>>], <<>>))

\* __gettext(source_phrase), called with the globals sl, tl, tr
__gettext(source_phrase, sl, tl, tr) ==
    IF sl.t # "str" \/ Len(sl.v) # 2
    THEN Raise("RuntimeError",
               Message("The source language of your script has not been set to valid data",
                       <<>>), tr)
    ELSE IF tl.t \notin {"str", "none"} \/ (tl # None /\ Len(tl.v) # 2)
    THEN Raise("RuntimeError",
               Message("The target language of your script has been set to a bad value",
                       <<>>), tr)
    ELSE IF tl = None \/ tl = sl
    THEN Return(source_phrase, tr)
    ELSE IF HasKey(tr, source_phrase.v)
    THEN Return(Get(tr, source_phrase.v), tr)
    ELSE Raise("KeyError",
               Message("was not found in the translation file for target_lang",
                       <<source_phrase.v, tl.v>>), tr)

----------------------------------------------------------------------------
(* get_lang_readable_name *)

English == Str(<<"E","n","g","l","i","s","h">>)

\* get_lang_readable_name(lang), called with the store holding tr
get_lang_readable_name(lang, tr, fs) ==
    IF lang = Str(<<"e","n">>) THEN Return(English, tr)
    ELSE IF ~IsCode(lang)
    THEN Raise("ValueError",
               Message("source_lang must be a two character string", <<>>), tr)
    ELSE
    LET temptrans == tr
        l == __load_translations(lang.v, fs, tr) IN
    IF l.exc # "" THEN l
    ELSE IF ~HasKey(l.store, K_target_lang_readable)
    THEN Raise("KeyError", Message("KeyError", <<K_target_lang_readable>>),
               l.store)
    ELSE Return(Get(l.store, K_target_lang_readable), temptrans)

----------------------------------------------------------------------------
(* getlangs *)

\* name ends with ".translation"
HasExt(name) ==
    Len(name) >= Len(Ext)
    /\ SubSeq(name, Len(name) - Len(Ext) + 1, Len(name)) = Ext

\* the files glob.glob("*.translation") finds: "*" matches no leading dot
Glob(fs) == {name \in DOMAIN fs : Exists(fs, name) /\ HasExt(name)
                                   /\ name[1] # "."}

\* the orders in which glob may list the files of S
Orders(S) ==
    {o \in [1..Cardinality(S) -> S] :
        \A i, j \in 1..Cardinality(S) : o[i] = o[j] => i = j}

\* "does not match" in str(e)
DoesNotMatchIn(m) == m.tag = "does not match"

\* TryCandidate with the declared source language compared as written, not
\* lowercased
TryCandidateAsWritten(lang, source_lang, fs, tr) ==
    LET l == __load_translations(lang, fs, tr) IN
    IF l.exc # "" THEN l
    ELSE IF ~HasKey(l.store, K_source_lang)
    THEN Raise("KeyError", Message("KeyError", <<K_source_lang>>), l.store)
    ELSE
    LET declared == Get(l.store, K_source_lang) IN
    IF declared.t # "str"
    THEN Raise("AttributeError", Message("no attribute 'lower'", <<>>),
               l.store)
    ELSE IF declared.v # source_lang
    THEN Raise("RuntimeError",
               Message("does not match",
                       <<lang, Lower(declared.v), source_lang>>), l.store)
    ELSE Return(None, l.store)

\* the try block of one iteration of the loop over langs
TryCandidate(lang, source_lang, fs, tr) ==
    LET l == __load_translations(lang, fs, tr) IN
    IF l.exc # "" THEN l
    ELSE IF ~HasKey(l.store, K_source_lang)
    THEN Raise("KeyError", Message("KeyError", <<K_source_lang>>), l.store)
    ELSE
    LET declared == Get(l.store, K_source_lang) IN
    IF declared.t # "str"
    THEN Raise("AttributeError", Message("no attribute 'lower'", <<>>),
               l.store)
    ELSE IF Lower(declared.v) # source_lang
    THEN Raise("RuntimeError",
               Message("does not match",
                       <<lang, Lower(declared.v), source_lang>>), l.store)
    ELSE Return(None, l.store)

\* the except RuntimeError clause
ExceptRuntimeError(lang, out) ==
    IF out.exc # "RuntimeError" THEN out
    ELSE IF DoesNotMatchIn(out.msg) THEN out
    ELSE Raise("RuntimeError",
               Message("Could not load the translation file for", <<lang>>),
               out.store)

\* Finally without the assignment: the store stays as the iteration left it
FinallyLeavesStore(out, temptrans) == out

\* the finally clause: __translations = temptrans
Finally(out, temptrans) == [out EXCEPT !.store = temptrans]

\* one iteration of the loop: try, except, finally
Candidate(lang, source_lang, fs, tr, temptrans) ==
    Finally(ExceptRuntimeError(lang, TryCandidate(lang, source_lang, fs, tr)),
            temptrans)

RECURSIVE LangsLoop(_, _, _, _, _, _)
\* the loop over langs from index i on, the store holding tr
LangsLoop(langs, i, source_lang, fs, tr, temptrans) ==
    IF i > Len(langs)
    THEN Return([t |-> "list", v |-> langs], tr)
    ELSE IF langs[i] = source_lang
    THEN LangsLoop(langs, i + 1, source_lang, fs, tr, temptrans)
    ELSE LET out == Candidate(langs[i], source_lang, fs, tr, temptrans) IN
         IF out.exc # "" THEN out
         ELSE LangsLoop(langs, i + 1, source_lang, fs, out.store, temptrans)

\* getlangs(source_lang), glob listing the files as found
getlangs(source_lang, found, tr, fs) ==
    IF ~IsCode(source_lang)
    THEN Raise("ValueError",
               Message("source_lang must be a string of exactly two characters in length",
                       <<>>), tr)
    ELSE
    LET src == Lower(source_lang.v)
        all == <<src>> \o found
        langs == [i \in 1..Len(all) |-> Prefix(all[i], 2)] IN
    LangsLoop(langs, 1, src, fs, tr, tr)

----------------------------------------------------------------------------
(* The scan of the calling script *)

\* ["\']
Quote(c) == c \in {"\"", "'"}

\* the places of line where  _\(["\']  matches
Opens(line) ==
    {i \in 1..Len(line) :
        /\ i + 2 <= Len(line)
        /\ line[i] = "_" /\ line[i+1] = "(" /\ Quote(line[i+2])}

\* the places of line where  ["\']\)  matches and leaves (.+?), begun after
\* the opening at i, at least one character
Closes(line, i) ==
    {j \in 1..Len(line) :
        /\ j >= i + 4 /\ j + 1 <= Len(line)
        /\ Quote(line[j]) /\ line[j+1] = ")"}

Max(S) == CHOOSE x \in S : \A y \in S : y <= x
Min(S) == CHOOSE x \in S : \A y \in S : x <= y

\* the openings from which the rest of the pattern matches
Matching(line) == {i \in Opens(line) : Closes(line, i) # {}}

\* the opening the greedy leading .* settles on: the last that matches
GreedyOpen(line) == Max(Matching(line))

\* match.group(1) of the one match re.finditer finds on a line: the lazy
\* (.+?) ends at the first closing
Group1(line) ==
    LET i == GreedyOpen(line) IN SubSeq(line, i + 3, Min(Closes(line, i)) - 1)

\* re.search(r'^.*#', match.group(0), re.M) is None
NotComment(line) == ~InSeq("#", line)

RECURSIVE Scanned(_)
\* the phrases of the loop over matches, one for each matching line that is
\* no comment, in the order of the lines
Scanned(lines) ==
    IF lines = <<>> THEN <<>>
    ELSE LET line == Head(lines) IN
         (IF Matching(line) # {} /\ NotComment(line)
          THEN <<Group1(line)>> ELSE <<>>) \o Scanned(Tail(lines))

RECURSIVE UpdateAll(_, _)
\* data.update({phrase: ""}) for each phrase in turn
UpdateAll(data, phrases) ==
    IF phrases = <<>> THEN data
    ELSE UpdateAll(Update(data, Head(phrases), Str(<<>>)), Tail(phrases))

\* the dict of the three special fields
SpecialFields(source_lang, target_lang) ==
    << <<K_source_lang, Str(source_lang)>>,
       <<K_target_lang, Str(target_lang)>>,
       <<K_target_lang_readable, Str(<<>>)>> >>

----------------------------------------------------------------------------
(* get_data_template *)

\* get_data_template(source_lang, target_lang); the value returned is the
\* JSON text of data, modelled by the object it writes
get_data_template(source_lang, target_lang, lines, tr) ==
    IF ~IsCode(source_lang)
    THEN Raise("ValueError",
               Message("source_lang must be a two character string", <<>>), tr)
    ELSE IF ~IsCode(target_lang)
    THEN Raise("ValueError",
               Message("target_lang must be a two character string", <<>>), tr)
    ELSE
    LET data == SpecialFields(Lower(source_lang.v), Lower(target_lang.v)) IN
    Return([t |-> "json", v |-> UpdateAll(data, Scanned(lines))], tr)

----------------------------------------------------------------------------
(* cleanup_translation_data *)

\* phrase[:2] == "__"
IsSpecial(phrase) == Prefix(phrase, 2) = <<"_", "_">>

\* CleanupReport without the check against the phrases of the script
CleanupReportUnchecked(translationfiledata, scriptdata) ==
    SelectSeq(translationfiledata, LAMBDA phrase : ~IsSpecial(phrase))

RECURSIVE CleanupReport(_, _)
\* the loop over translationfiledata: the phrases reported
CleanupReport(translationfiledata, scriptdata) ==
    IF translationfiledata = <<>> THEN <<>>
    ELSE LET phrase == Head(translationfiledata) IN
         (IF ~IsSpecial(phrase) /\ ~InSeq(phrase, scriptdata)
          THEN <<phrase>> ELSE <<>>)
         \o CleanupReport(Tail(translationfiledata), scriptdata)

\* cleanup_translation_data(target_lang); the value returned is
\* "\n".join(report), modelled by the phrases of its lines in order
cleanup_translation_data(target_lang, lines, tr, fs) ==
    IF ~IsCode(target_lang)
    THEN Raise("ValueError",
               Message("target_lang must be a two character string", <<>>), tr)
    ELSE
    LET scriptdata == Scanned(lines)
        transbackup == tr
        l == __load_translations(target_lang.v, fs, tr) IN
    IF l.exc # "" THEN l
    ELSE Return([t |-> "report",
                 v |-> CleanupReport(Keys(l.store), scriptdata)],
                l.store)

----------------------------------------------------------------------------
(* validate_translation_data *)

\* NoValidTranslation without the strip
NoValidTranslationUnstripped(val) == val.t # "str" \/ Len(val.v) < 1

\* type(v) != str or len(v.strip()) < 1
NoValidTranslation(val) == val.t # "str" \/ Len(Strip(val.v)) < 1

RECURSIVE Missings(_, _)
\* the keys of the missings report, in order
Missings(keys, d) ==
    IF keys = <<>> THEN <<>>
    ELSE (IF ~HasKey(d, Head(keys)) THEN <<Head(keys)>> ELSE <<>>)
         \o Missings(Tail(keys), d)

RECURSIVE Incompletes(_, _)
\* the keys of the incompletes report, in order
Incompletes(keys, d) ==
    IF keys = <<>> THEN <<>>
    ELSE (IF HasKey(d, Head(keys)) /\ NoValidTranslation(Get(d, Head(keys)))
          THEN <<Head(keys)>> ELSE <<>>)
         \o Incompletes(Tail(keys), d)

\* the lines of the report before they are joined: the incompletes, then the
\* header and the missings if there are any; text is what follows the key
ReportLines(incompletes, missings) ==
    [i \in 1..Len(incompletes) |->
        [kind |-> "incomplete", key |-> incompletes[i],
         text |-> <<"exists in file but has no valid translation to return.">>]]
    \o (IF Len(missings) > 0
        THEN <<[kind |-> "header", key |-> <<>>,
                text |-> <<"Source phrase for the following keys does not exist on file:">>]>>
             \o [i \in 1..Len(missings) |->
                    [kind |-> "missing", key |-> missings[i],
                     text |-> <<"\": None", ",", "\n">>]]
        ELSE <<>>)

\* report[:-2] of the joined report, which ends with the text of its last line
TrimLast(report) ==
    [report EXCEPT ![Len(report)].text = DropLast(@, 2)]

\* the report raised as the warning
Report(incompletes, missings) ==
    IF Len(missings) > 0 THEN TrimLast(ReportLines(incompletes, missings))
    ELSE ReportLines(incompletes, missings)

RECURSIVE CountSpecial(_)
\* len(specialkeys): the number of keys of scriptdata with key[:2] == "__"
CountSpecial(keys) ==
    IF keys = <<>> THEN 0
    ELSE (IF IsSpecial(Head(keys)) THEN 1 ELSE 0) + CountSpecial(Tail(keys))

\* validate_translation_data(source_lang, target_lang); the summary returned
\* is modelled by its two numbers
validate_translation_data(source_lang, target_lang, lines, tr, fs) ==
    IF ~IsCode(source_lang)
    THEN Raise("ValueError",
               Message("source_lang must be a two character string", <<>>), tr)
    ELSE IF ~IsCode(target_lang)
    THEN Raise("ValueError",
               Message("target_lang must be a two character string", <<>>), tr)
    ELSE
    LET scriptdata == UpdateAll(SpecialFields(Lower(source_lang.v),
                                              Lower(target_lang.v)),
                                Scanned(lines))
        specialkeys == CountSpecial(Keys(scriptdata))
        transbackup == tr
        l == __load_translations(Lower(target_lang.v), fs, tr) IN
    IF l.exc # "" THEN l
    ELSE
    LET missings == Missings(Keys(scriptdata), l.store)
        incompletes == Incompletes(Keys(scriptdata), l.store) IN
    IF Len(incompletes) > 0 \/ Len(missings) > 0
    THEN Raise("RuntimeWarning",
               Message("Errors found in translation data",
                       Report(incompletes, missings)), l.store)
    ELSE Return([t |-> "summary",
                 v |-> <<Len(scriptdata) - specialkeys, specialkeys>>],
                transbackup)

----------------------------------------------------------------------------
(* The inputs and the environment *)

en == <<"e", "n">>
EN == <<"E", "N">>
pl == <<"p", "l">>
de == <<"d", "e">>
\* a code that str.lower() makes three characters long
Ia == <<"U+0130", "a">>
\* a string of three characters
plx == <<"p", "l", "x">>

a == <<"a">>
b == <<"b">>

\* a complete translation file for the target language code: its declared
\* source language is written in capitals
Good(code) ==
    << <<K_source_lang, Str(EN)>>,
       <<K_target_lang, Str(code)>>,
       <<K_target_lang_readable, Str(<<"N">> \o code)>>,
       <<a, Str(<<"A">> \o code)>> >>

\* a file that declares another source language, has no readable name and
\* a blank translation
Mismatch ==
    << <<K_source_lang, Str(pl)>>,
       <<K_target_lang, Str(de)>>,
       <<a, Str(<<" ">>)>> >>

\* a file without special fields, with an entry the script does not use
NoMeta == << <<a, Str(<<"B">>)>>, <<b, Str(<<"X">>)>> >>

\* a file whose values are numbers
Numbers ==
    << <<K_source_lang, Number>>,
       <<K_target_lang, Number>>,
       <<K_target_lang_readable, Number>>,
       <<a, Number>> >>

\* a complete file with two more entries, one of them named like a special
\* field
Full(code) ==
    Good(code) \o << <<b, Str(<<"B">> \o code)>>,
                     <<<<"_", "_", "a">>, Str(<<"S">>)>> >>

\* the working directory holding pl.translation, de.translation and
\* plx.translation with the contents x, y and z
Dir(x, y, z) ==
    [n \in {pl \o Ext, de \o Ext, plx \o Ext} |->
        CASE n = pl \o Ext -> x [] n = de \o Ext -> y [] OTHER -> z]

\* the working directories of the session specification
FileSystems ==
    {Dir(x, y, Absent) :
        x \in {Malformed, Object(Good(pl)), Object(NoMeta)},
        y \in {Absent, Object(Good(de)), Object(Mismatch)}}
    \cup {Dir(Absent, Object(Numbers), Object(Good(pl)))}

\* the most translation files a working directory of the listing
\* specification holds
MaxFiles == 2

\* the working directories of the listing specification: each of the three
\* files is absent, malformed or holds one of the objects
ListFileSystems ==
    {fs \in [{pl \o Ext, de \o Ext, plx \o Ext} ->
                {Absent, Malformed, Object(Good(pl)), Object(Mismatch),
                 Object(NoMeta), Object(Numbers)}] :
        Cardinality({n \in DOMAIN fs : fs[n] # Absent}) <= MaxFiles}

\* the calling script of the session specification:  _("a")  and a comment
SessionScript ==
    << <<"_", "(", "\"", "a", "\"", ")">>,
       <<"#", " ", "_", "(", "\"", "b", "\"", ")">> >>

\* the arguments the calls are made with
SourceInputs == {Str(en), Str(EN), Str(Ia), Number}
TargetInputs == {None, Str(EN), Str(pl), Str(de), Str(plx)}
LangInputs == {Str(en), Str(pl), Str(de), Str(plx)}
ListSources == {Str(EN), Str(pl), Str(Ia), Str(plx)}
ToolSources == {Str(EN), Str(plx)}
ToolTargets == {Str(pl), Str(de), Str(plx)}
Phrases == {Str(a), Str(b)}

\* the lines a calling script of the scan specification is made of
Lines ==
    { <<"_", "(", "\"", "a", "\"", ")">>,                      \* _("a")
      <<"x", "=", "_", "(", "'", "b", "'", ")">>,              \* x=_('b')
      <<"#", "_", "(", "\"", "a", "\"", ")">>,                 \* #_("a")
      <<"_", "(", "\"", "b", "\"", ")", "#", "c">>,            \* _("b")#c
      <<"_", "(", "\"", "a", "\"", ")", "+",
        "_", "(", "\"", "b", "\"", ")">>,                      \* _("a")+_("b")
      <<"_", "(", "'", "_", "_", "a", "'", ")">>,              \* _('__a')
      <<"x", "(", ")">> }                                      \* x()

\* the most lines a calling script of the scan specification has
MaxLines == 2

\* the calling scripts of the scan specification
Scripts == UNION {[1..n -> Lines] : n \in 0..MaxLines}

\* the working directories of the scan specification
ScanFileSystems ==
    { Dir(Object(Full(pl)), Object(Mismatch), Absent),
      Dir(Object(Good(pl)), Object(Numbers), Absent),
      Dir(Object(NoMeta), Object(Full(de)), Absent) }

----------------------------------------------------------------------------
(* The state machine *)

Globals == [sl |-> __source_lang, tl |-> __target_lang, tr |-> __translations]

Imported ==
    /\ __source_lang = None
    /\ __target_lang = None
    /\ __translations = <<>>
    /\ handle = FALSE
    /\ pre = [sl |-> None, tl |-> None, tr |-> <<>>]
    /\ call = [op |-> "import", args |-> <<>>, exc |-> "", msg |-> NoMessage,
               ret |-> None]

Init ==
    /\ Imported
    /\ files \in FileSystems
    /\ script = SessionScript

\* a call of op with args that leaves the session codes sl, tl and has the
\* outcome out
Step(op, args, sl, tl, out) ==
    /\ pre' = Globals
    /\ __source_lang' = sl
    /\ __target_lang' = tl
    /\ __translations' = out.store
    /\ call' = [op |-> op, args |-> args, exc |-> out.exc, msg |-> out.msg,
                ret |-> out.ret]
    /\ UNCHANGED <<files, script>>

Translator ==
    \E s \in SourceInputs, t \in TargetInputs :
        LET e == translator(s, t, __source_lang, __target_lang,
                            __translations, files) IN
        /\ Step("translator", <<s, t>>, e.sl, e.tl, e.out)
        /\ handle' = (handle \/ e.out.exc = "")

Gettext ==
    \E p \in Phrases :
        /\ handle
        /\ Step("__gettext", <<p>>, __source_lang, __target_lang,
                __gettext(p, __source_lang, __target_lang, __translations))
        /\ UNCHANGED handle

GetLangReadableName ==
    \E lang \in LangInputs :
        /\ Step("get_lang_readable_name", <<lang>>, __source_lang,
                __target_lang,
                get_lang_readable_name(lang, __translations, files))
        /\ UNCHANGED handle

Getlangs ==
    \E s \in ListSources, found \in Orders(Glob(files)) :
        /\ Step("getlangs", <<s, Str(found)>>, __source_lang, __target_lang,
                getlangs(s, found, __translations, files))
        /\ UNCHANGED handle

GetDataTemplate ==
    \E s \in ToolSources, t \in ToolTargets :
        /\ Step("get_data_template", <<s, t>>, __source_lang, __target_lang,
                get_data_template(s, t, script, __translations))
        /\ UNCHANGED handle

CleanupTranslationData ==
    \E t \in ToolTargets :
        /\ Step("cleanup_translation_data", <<t>>, __source_lang,
                __target_lang,
                cleanup_translation_data(t, script, __translations, files))
        /\ UNCHANGED handle

ValidateTranslationData ==
    \E s \in ToolSources, t \in ToolTargets :
        /\ Step("validate_translation_data", <<s, t>>, __source_lang,
                __target_lang,
                validate_translation_data(s, t, script, __translations,
                                          files))
        /\ UNCHANGED handle

Next ==
    \/ Translator
    \/ Gettext
    \/ GetLangReadableName
    \/ Getlangs
    \/ GetDataTemplate
    \/ CleanupTranslationData
    \/ ValidateTranslationData

Spec == Init /\ [][Next]_vars

\* getlangs over many working directories, the store filled by
\* cleanup_translation_data
InitList ==
    /\ Imported
    /\ files \in ListFileSystems
    /\ script = SessionScript

NextList ==
    \/ Getlangs
    \/ CleanupTranslationData

SpecList == InitList /\ [][NextList]_vars

\* the tools that scan the calling script, over many scripts
InitScan ==
    /\ Imported
    /\ files \in ScanFileSystems
    /\ script \in Scripts

NextScan ==
    \/ GetDataTemplate
    \/ CleanupTranslationData
    \/ ValidateTranslationData

SpecScan == InitScan /\ [][NextScan]_vars

\* the session under translator and the lookup alone
NextConfigure ==
    \/ Translator
    \/ Gettext

SpecConfigure == Init /\ [][NextConfigure]_vars

----------------------------------------------------------------------------
(* The claims *)

\* the last call was translator(s, t) and it returned the lookup handle
Configured == call.op = "translator" /\ call.exc = ""

\* C1: after translator(L, L) or translator(L, None) has returned, for a code
\* L of two characters in any letter case, the lookup of a phrase P returns
\* P and raises nothing.
C1_PassthroughLookupIsIdentity ==
    [][(/\ Configured
        /\ (call.args[2] = None \/ call.args[2] = call.args[1])
        /\ call'.op = "__gettext")
       => (call'.exc = "" /\ call'.ret = call'.args[1])]_vars

\* C2: after translator(src, tgt) has returned with tgt and src different once
\* lowercased, the lookup of a key P of the file of tgt returns the value the
\* file maps P to; the lookup of any other phrase raises KeyError, returns
\* nothing and leaves the session codes and the store as they were.
C2_TranslateLookupFollowsFile ==
    [][(/\ Configured
        /\ call.args[2] # None
        /\ Lower(call.args[2].v) # Lower(call.args[1].v)
        /\ call'.op = "__gettext")
       => LET file == files[Lower(call.args[2].v) \o Ext].data
              P == call'.args[1].v IN
          IF HasKey(file, P)
          THEN call'.exc = "" /\ call'.ret = Get(file, P)
          ELSE /\ call'.exc = "KeyError"
               /\ call'.ret.t = "raised"
               /\ __source_lang' = __source_lang
               /\ __target_lang' = __target_lang
               /\ __translations' = __translations]_vars

\* the last call was getlangs and an exception of class e with the text tag
\* reached the caller
GetlangsRaised(e, tag) ==
    call.op = "getlangs" /\ call.exc = e /\ call.msg.tag = tag

\* C3: a failure of getlangs while it loads or checks a candidate, other
\* than a declared source language that does not match, reaches the caller
\* as the RuntimeError 'Could not load the translation file for <code>'.
C3_OtherFailuresAreLoadErrors ==
    (/\ call.op = "getlangs"
     /\ call.exc \notin {"", "ValueError"}
     /\ ~GetlangsRaised("RuntimeError", "does not match"))
    => GetlangsRaised("RuntimeError", "Could not load the translation file for")

\* C8: validate_translation_data leaves the store as it was before the call,
\* however it ends.
C8_ValidateRestoresStore ==
    call.op = "validate_translation_data" => __translations = pre.tr

\* C9: cleanup_translation_data leaves the store as it was before the call
\* when it returns its report.
C9_CleanupRestoresStore ==
    (call.op = "cleanup_translation_data" /\ call.exc = "")
    => __translations = pre.tr

\* C10: get_lang_readable_name leaves the store as it was before the call,
\* however it ends.
C10_ReadableNameRestoresStore ==
    call.op = "get_lang_readable_name" => __translations = pre.tr

----------------------------------------------------------------------------
(* The claims about the scan of the calling script *)

ThreeSpecialKeys == {K_source_lang, K_target_lang, K_target_lang_readable}

\* the elements of a sequence
Range(seq) == {seq[i] : i \in 1..Len(seq)}

\* the literal passed by the lookup call that opens at place i of line
PhraseAt(line, i) == SubSeq(line, i + 3, Min(Closes(line, i)) - 1)

\* the literals of all lookup calls of a line
LiteralPhrases(line) == {PhraseAt(line, i) : i \in Matching(line)}

\* the literals of all lookup calls on the lines without a comment marker
UncommentedPhrases ==
    UNION {LiteralPhrases(script[i]) :
              i \in {j \in 1..Len(script) : ~InSeq("#", script[j])}}

\* the phrases the scan yields
ScannedSet == Range(Scanned(script))

\* C6: the keys of the object get_data_template writes are the three special
\* keys and every literal phrase passed to the lookup idiom on a line that
\* is no comment line, also when a line holds more than one lookup call.
C6_TemplateHoldsEveryPhrase ==
    (call.op = "get_data_template" /\ call.exc = "")
    => Range(Keys(call.ret.v)) = ThreeSpecialKeys \cup UncommentedPhrases

----------------------------------------------------------------------------
(* C5: validate_translation_data *)

\* the last call was validate_translation_data with two codes of two
\* characters and a target file that loads
Validated ==
    /\ call.op = "validate_translation_data"
    /\ IsCode(call.args[1]) /\ IsCode(call.args[2])
    /\ Exists(files, Lower(call.args[2].v) \o Ext)
    /\ files[Lower(call.args[2].v) \o Ext].kind = "object"

\* the target file of the last call
ValidatedFile == files[Lower(call.args[2].v) \o Ext].data

\* the keys the validation checks
CheckedKeys == ThreeSpecialKeys \cup ScannedSet

\* k is a key of file d whose value is a string that is not blank
Translated(d, k) ==
    /\ HasKey(d, k)
    /\ Get(d, k).t = "str"
    /\ \E i \in 1..Len(Get(d, k).v) : Get(d, k).v[i] # " "

\* the keys of the lines of the given kind in the report the warning carries
ReportedAs(kind) ==
    {call.msg.parts[i].key :
        i \in {j \in 1..Len(call.msg.parts) : call.msg.parts[j].kind = kind}}

\* the missing keys stand under the header
MissingUnderHeader ==
    \A i \in 1..Len(call.msg.parts) :
        call.msg.parts[i].kind = "missing"
        => \E j \in 1..(i-1) : call.msg.parts[j].kind = "header"

\* the summary is returned exactly when every checked key is translated in
\* the file; otherwise the warning is raised, and its report lists the absent
\* keys as missing and the others without a valid translation as incomplete
ValidateVerdict ==
    Validated =>
        IF \A k \in CheckedKeys : Translated(ValidatedFile, k)
        THEN call.exc = "" /\ call.ret.t = "summary"
        ELSE /\ call.exc = "RuntimeWarning"
             /\ ReportedAs("missing") =
                    {k \in CheckedKeys : ~HasKey(ValidatedFile, k)}
             /\ MissingUnderHeader
             /\ ReportedAs("incomplete") =
                    {k \in CheckedKeys : /\ HasKey(ValidatedFile, k)
                                         /\ ~Translated(ValidatedFile, k)}

\* C5 as stated: the verdict as above, and on success N is the number of
\* distinct scanned phrases and M is 3.
C5_ValidateCountsThreeSpecialKeys ==
    /\ ValidateVerdict
    /\ (Validated /\ call.exc = "")
       => call.ret.v = <<Cardinality(ScannedSet), 3>>

\* C5 as amended: the verdict as above, and on success N is the number of
\* distinct scanned phrases that do not begin with "__" and M is the number
\* of distinct keys beginning with "__" among the three special keys and the
\* scanned phrases.
C5_ValidateCountsPrefixedKeys ==
    /\ ValidateVerdict
    /\ (Validated /\ call.exc = "")
       => call.ret.v =
            << Cardinality({k \in ScannedSet : Prefix(k, 2) # <<"_", "_">>}),
               Cardinality({k \in CheckedKeys : Prefix(k, 2) = <<"_", "_">>}) >>

\* a validation that succeeded on a script with one plain phrase and one
\* phrase that begins with "__"
C5_Witness ==
    Validated /\ call.exc = "" /\ call.ret.v = <<1, 4>>

----------------------------------------------------------------------------
(* C7: cleanup_translation_data *)

\* the last call was cleanup_translation_data and it returned its report
CleanedUp == call.op = "cleanup_translation_data" /\ call.exc = ""

\* the target file of the last call
CleanedFile == files[call.args[1].v \o Ext].data

\* C7 as stated: the report has one line for each key of the target file
\* that is none of the three special keys and is not a scanned phrase, in
\* the order of the file, and no other line.
C7_CleanupSkipsThreeSpecialKeys ==
    CleanedUp =>
        call.ret.v = SelectSeq(Keys(CleanedFile),
                               LAMBDA k : /\ k \notin ThreeSpecialKeys
                                          /\ k \notin ScannedSet)

\* C7 as amended: the report has one line for each key of the target file
\* that does not begin with "__" and is not a scanned phrase, in the order
\* of the file, and no other line.
C7_CleanupSkipsPrefixedKeys ==
    CleanedUp =>
        call.ret.v = SelectSeq(Keys(CleanedFile),
                               LAMBDA k : /\ Prefix(k, 2) # <<"_", "_">>
                                          /\ k \notin ScannedSet)

\* a report of one line, of a file with a key that begins with "__" and is
\* no special key, and with a key that is a scanned phrase
C7_Witness ==
    /\ CleanedUp
    /\ Len(call.ret.v) = 1
    /\ \E k \in Range(Keys(CleanedFile)) :
          Prefix(k, 2) = <<"_", "_">> /\ k \notin ThreeSpecialKeys
                                      /\ k \notin ScannedSet
    /\ \E k \in Range(Keys(CleanedFile)) :
          k \in ScannedSet /\ k \notin ThreeSpecialKeys

----------------------------------------------------------------------------
(* C4: getlangs *)

\* the last call was getlangs with a code of two characters
Listing == call.op = "getlangs" /\ IsCode(call.args[1])

\* the requested source language, lowercased
Requested == Lower(call.args[1].v)

\* the codes of the discovered files, in discovery order
Discovered ==
    [i \in 1..Len(call.args[2].v) |-> Prefix(call.args[2].v[i], 2)]

\* the file of code c loads
Loads(c) == Exists(files, c \o Ext) /\ files[c \o Ext].kind = "object"

\* the file of code c loads and declares a source language
Declares(c) ==
    /\ Loads(c)
    /\ HasKey(files[c \o Ext].data, K_source_lang)
    /\ Get(files[c \o Ext].data, K_source_lang).t = "str"

\* the source language the file of code c declares, lowercased
Declared(c) == Lower(Get(files[c \o Ext].data, K_source_lang).v)

\* the consistency error naming candidate c was raised
ConsistencyError(c) ==
    /\ GetlangsRaised("RuntimeError", "does not match")
    /\ Declares(c)
    /\ call.msg.parts = <<c, Declared(c), Requested>>

Listed ==
    [i \in 1..(1 + Len(Discovered)) |->
        IF i = 1 THEN Prefix(Requested, 2) ELSE Discovered[i-1]]

\* entry i of the list is checked and passes: its file loads and declares
\* the requested source language
Passes(i) ==
    Listed[i] # Requested
    => (Declares(Listed[i]) /\ Declared(Listed[i]) = Requested)

\* entry i is the first entry of the list that does not pass
FirstFailing(i) == ~Passes(i) /\ \A j \in 1..(i-1) : Passes(j)

----------------------------------------------------------------------------
(* C11: getlangs and the store *)

\* C11: getlangs leaves the store as it was before the call, however it
\* ends (the list returned, the consistency error, an error of a candidate
\* that escapes unwrapped, the ValueError), and each iteration over a
\* candidate leaves it so, whatever the iteration's outcome.
C11_GetlangsRestoresStore ==
    call.op = "getlangs" =>
        /\ __translations = pre.tr
        /\ Listing =>
             \A i \in 1..Len(Listed) :
                Candidate(Listed[i], Requested, files, pre.tr, pre.tr).store
                    = pre.tr

\* getlangs called with a store that held a mapping, ended by the error of a
\* candidate whose file loaded and has no __source_lang
C11_Witness ==
    /\ call.op = "getlangs"
    /\ call.exc = "KeyError"
    /\ pre.tr # <<>>
    /\ \E i \in 1..Len(Listed) :
          Loads(Listed[i]) /\ files[Listed[i] \o Ext].data # pre.tr

----------------------------------------------------------------------------
(* C12: the session after translator calls *)

\* the session translates: a target is stored and differs from the source
Translating == __target_lang # None /\ __target_lang # __source_lang

\* C12: after any sequence of translator calls, failed ones included, a
\* stored target that differs from the stored source comes with the parsed
\* contents of that target's file in the store, and passthrough mode comes
\* with an empty store.
C12_SessionIsConsistent ==
    /\ Translating =>
          /\ Loads(__target_lang.v)
          /\ __translations = files[__target_lang.v \o Ext].data
    /\ ~Translating => __translations = <<>>

====
